---- MODULE Spec2Model ----
(***************************************************************************)
(* Tier-gated data access of the DARG Market Intelligence dashboard:       *)
(* the tier registry and session of utils/tier_control.py, the data        *)
(* gateway of utils/data_access.py with its bundled sample fallback        *)
(* (utils/sample_data.py), and the page runs that call them.               *)
(*                                                                         *)
(* Coordinates are kept as integers scaled by 10^4 (40.7128 is 407128).    *)
(* Timestamps (last_active, tier_change_time) are not modelled.            *)
(***************************************************************************)
EXTENDS Integers, Sequences, FiniteSets, TLC

VARIABLES user_tier, tier_history, feature_usage, data_access_count,
          page, pc, idx, fetch_log, g, atl, reg, cl, lib

vars == <<user_tier, tier_history, feature_usage, data_access_count,
          page, pc, idx, fetch_log, g, atl, reg, cl, lib>>

(***************************************************************************)
(* Bounds of the model.                                                    *)
(***************************************************************************)
\* records held by the remote collaborator for one dataset
MaxRemote == 3
\* longest list handed to apply_tier_limit
MaxLen == 4
\* cap on data_access_count (the counter is unbounded in the program)
MaxUsage == 2
\* data_access_count up to which a tier_limited call, which tracks up to
\* three usages, may still start
MaxTracked == 4
\* cap on the length of tier_history (the list is unbounded in the program)
MaxHistory == 2
\* longest list handed to clean_lat_lon on its own
MaxClean == 3
\* distinct outcomes of the random.uniform draws of one sample call
MaxDraw == 2
\* longest map DataFrame whose opportunity score is derived
MaxRows == 2

Max(a, b) == IF a >= b THEN a ELSE b

(***************************************************************************)
(* Tier registry (tier_control.py) and the gateway's own table.            *)
(***************************************************************************)
TierNames == {"Free", "Accelerate", "Scale"}

\* a tier name the registry does not define
UnknownTier == "Enterprise"

TierInputs == TierNames \cup {UnknownTier}

\* a value of the registry: a boolean, a text, a number or None
BoolVal(b) == [k |-> "bool", b |-> b, s |-> "", n |-> 0]
StrVal(s) == [k |-> "str", b |-> FALSE, s |-> s, n |-> 0]
IntVal(n) == [k |-> "int", b |-> FALSE, s |-> "", n |-> n]
NoneVal == [k |-> "none", b |-> FALSE, s |-> "", n |-> 0]

TIER_DEFINITIONS ==
  [Free       |-> [level |-> 0, data_percentage |-> 10,
                   features |->
                     [market_map |-> StrVal("Limited to 10% of data points"),
                      export |-> BoolVal(FALSE),
                      detailed_analysis |-> BoolVal(FALSE),
                      api_access |-> BoolVal(FALSE),
                      support |-> StrVal("Community forum")]],
   Accelerate |-> [level |-> 1, data_percentage |-> 50,
                   features |->
                     [market_map |-> StrVal("Access to 50% of data points"),
                      export |-> BoolVal(TRUE),
                      detailed_analysis |-> BoolVal(TRUE),
                      api_access |-> BoolVal(FALSE),
                      support |-> StrVal("Email support")]],
   Scale      |-> [level |-> 2, data_percentage |-> 100,
                   features |->
                     [market_map |-> StrVal("Full access to all data points"),
                      export |-> BoolVal(TRUE),
                      detailed_analysis |-> BoolVal(TRUE),
                      api_access |-> BoolVal(TRUE),
                      support |-> StrVal("Priority support & training")]]]

\* mutant: a name outside the table is given the top tier's definition
TierInfo_unknown_scale(tier) ==
  IF tier \in DOMAIN TIER_DEFINITIONS THEN TIER_DEFINITIONS[tier]
  ELSE TIER_DEFINITIONS["Scale"]

\* TIER_DEFINITIONS.get(tier, TIER_DEFINITIONS["Free"])
TierInfo(tier) ==
  IF tier \in DOMAIN TIER_DEFINITIONS THEN TIER_DEFINITIONS[tier]
  ELSE TIER_DEFINITIONS["Free"]

TierLevel(tier) == TierInfo(tier).level

\* tier_control.get_tier_percentage, for the tier get_user_tier returns
get_tier_percentage(tier) == TierInfo(tier).data_percentage

\* the feature names of the table, and one it does not list
RegistryFeatures == {"market_map", "export", "detailed_analysis", "api_access",
                     "support", "dashboards"}

\* mutant: a descriptive text counts as no access
can_access_feature_text_denied(tier, f) ==
  LET features == TierInfo(tier).features
  IN IF f \in DOMAIN features
     THEN IF features[f].k = "bool" THEN features[f].b ELSE FALSE
     ELSE FALSE

\* can_access_feature(feature_name), for the tier get_user_tier returns
can_access_feature(tier, f) ==
  LET features == TierInfo(tier).features
  IN IF f \in DOMAIN features
     THEN IF features[f].k = "bool" THEN features[f].b ELSE TRUE
     ELSE FALSE

\* get_feature_limitations(feature_name), for the tier get_user_tier returns
get_feature_limitations(tier, f) ==
  LET features == TierInfo(tier).features
  IN IF f \in DOMAIN features
     THEN IF features[f].k = "bool" THEN NoneVal ELSE features[f]
     ELSE NoneVal

\* mutant: the two lower percentages are exchanged
TIER_ACCESS_exchanged == [Free |-> 66, Accelerate |-> 33, Scale |-> 100]

TIER_ACCESS == [Free |-> 33, Accelerate |-> 66, Scale |-> 100]

\* data_access.get_tier_percentage: TIER_ACCESS.get(tier, 33)
da_get_tier_percentage(tier) ==
  IF tier \in DOMAIN TIER_ACCESS THEN TIER_ACCESS[tier] ELSE 33

(***************************************************************************)
(* Records and coordinates.                                                *)
(***************************************************************************)
\* a coordinate value as JSON gives it: a number, a numeric string, some
\* other text, or null; "nan" is what pd.to_numeric(errors='coerce') leaves
Num(v) == [k |-> "num", v |-> v]
NumStr(v) == [k |-> "numstr", v |-> v]
Text == [k |-> "text", v |-> 0]
Null == [k |-> "null", v |-> 0]
NaN == [k |-> "nan", v |-> 0]
\* the record has no such key
Absent == [k |-> "absent", v |-> 0]

\* a record: its name, state and coordinates, and the names of the other
\* fields it carries
Rec(name, state, lat, lon) ==
  [name |-> name, state |-> state, latitude |-> lat, longitude |-> lon,
   extra |-> {}]

\* the fields get_sample_map_data gives a city besides city, state,
\* latitude and longitude
SampleCityFields ==
  {"population", "market_size", "growth_rate", "innovator_index",
   "community_focus", "value_driven", "disposable_income", "primary_belief",
   "belief_strength", "response_likelihood"}

City(name, state, lat, lon) ==
  [Rec(name, state, Num(lat), Num(lon)) EXCEPT !.extra = SampleCityFields]

\* a row without coordinates (a segment or a state aggregate)
Row(name, state) == Rec(name, state, Null, Null)

\* get_sample_map_data()["data"]: the 30 cities, in source order
SampleCities ==
  <<
       City("New York", "NY", 407128, -740060),
       City("Los Angeles", "CA", 340522, -1182437),
       City("Chicago", "IL", 418781, -876298),
       City("Houston", "TX", 297604, -953698),
       City("Phoenix", "AZ", 334484, -1120740),
       City("Philadelphia", "PA", 399526, -751652),
       City("San Antonio", "TX", 294241, -984936),
       City("San Diego", "CA", 327157, -1171611),
       City("Dallas", "TX", 327767, -967970),
       City("San Jose", "CA", 373382, -1218863),
       City("Austin", "TX", 302672, -977431),
       City("Jacksonville", "FL", 303322, -816557),
       City("Fort Worth", "TX", 327555, -973308),
       City("Columbus", "OH", 399612, -829988),
       City("Indianapolis", "IN", 397684, -861581),
       City("Charlotte", "NC", 352271, -808431),
       City("San Francisco", "CA", 377749, -1224194),
       City("Seattle", "WA", 476062, -1223321),
       City("Denver", "CO", 397392, -1049903),
       City("Washington", "DC", 389072, -770369),
       City("Boston", "MA", 423601, -710589),
       City("Nashville", "TN", 361627, -867816),
       City("Portland", "OR", 455051, -1226750),
       City("Las Vegas", "NV", 361699, -1151398),
       City("Detroit", "MI", 423314, -830458),
       City("Atlanta", "GA", 337490, -843880),
       City("Miami", "FL", 257617, -801918),
       City("Minneapolis", "MN", 449778, -932650),
       City("New Orleans", "LA", 299511, -900715),
       City("St. Louis", "MO", 386270, -901994)
  >>

\* get_sample_demographic_data()["summary"]: the 5 segments
SampleSegments ==
  << Row("Empathetic Dreamers", ""), Row("Practical Realists", ""),
     Row("Analytical Thinkers", ""), Row("Community Builders", ""),
     Row("Innovation Seekers", "") >>

\* get_sample_market_insights()["by_state"]
SampleStates ==
  << Row("California", "CA"), Row("Texas", "TX"), Row("New York", "NY"),
     Row("Florida", "FL"), Row("Illinois", "IL"), Row("Pennsylvania", "PA"),
     Row("Ohio", "OH"), Row("Georgia", "GA"), Row("North Carolina", "NC"),
     Row("Michigan", "MI") >>

\* get_sample_market_insights()["by_segment"]
SampleInsightSegments ==
  << Row("Empathetic Dreamers", ""), Row("Practical Realists", ""),
     Row("Analytical Thinkers", ""), Row("Community Builders", ""),
     Row("Innovation Seekers", "") >>

(***************************************************************************)
(* Python list and number helpers.                                         *)
(***************************************************************************)
Min(a, b) == IF a <= b THEN a ELSE b

\* int(num / 100): truncation toward zero
PyInt(num) == IF num >= 0 THEN num \div 100 ELSE -((-num) \div 100)

\* s[:k]
PySlice(s, k) ==
  IF k >= 0 THEN SubSeq(s, 1, Min(k, Len(s)))
  ELSE SubSeq(s, 1, Max(0, Len(s) + k))

(***************************************************************************)
(* clean_lat_lon (data_access.py)                                          *)
(***************************************************************************)
\* pd.to_numeric(errors='coerce') on one value
ToNumeric(c) ==
  CASE c.k = "num" -> c
    [] c.k = "numstr" -> Num(c.v)
    [] OTHER -> NaN

CoordsValid(r) ==
  /\ r.latitude.k = "num" /\ r.longitude.k = "num"
  /\ r.latitude.v >= -900000 /\ r.latitude.v <= 900000
  /\ r.longitude.v >= -1800000 /\ r.longitude.v <= 1800000

\* clean_lat_lon raises: ValueError for anything but a list (or DataFrame),
\* KeyError when the DataFrame has no latitude or no longitude column: an
\* empty list, or records none of which has the key
clean_raises(shape, recs) ==
  \/ shape # "list"
  \/ \A i \in 1..Len(recs) : recs[i].latitude.k = "absent"
  \/ \A i \in 1..Len(recs) : recs[i].longitude.k = "absent"

clean_lat_lon(recs) ==
  SelectSeq([i \in 1..Len(recs) |->
               [recs[i] EXCEPT !.latitude = ToNumeric(recs[i].latitude),
                               !.longitude = ToNumeric(recs[i].longitude)]],
            CoordsValid)

\* no call made of a function that is modelled on its own
NoLibCall == [phase |-> "idle"]

\* the record of a call clean_lat_lon(data) with a list
NoCleanCall == [phase |-> "idle", arg |-> <<>>, raised |-> FALSE, ret |-> <<>>]

CleanCall(recs) ==
  [phase |-> "done", arg |-> recs, raised |-> clean_raises("list", recs),
   ret |-> IF clean_raises("list", recs) THEN <<>> ELSE clean_lat_lon(recs)]

\* coordinate pairs to clean: valid numbers, valid numeric strings, the
\* bounds themselves, just beyond a bound, text, null, and a missing key
CoordPairs ==
  { <<Num(297604), Num(-953698)>>, <<NumStr(340522), NumStr(-1182437)>>,
    <<Num(900000), Num(1800000)>>, <<Num(-900000), Num(-1800000)>>,
    <<Num(900001), Num(0)>>, <<Num(0), Num(-1800001)>>,
    <<Text, Num(0)>>, <<Num(0), Null>>, <<Absent, Absent>> }

RecordNames == <<"a", "b", "c", "d", "e">>

\* the lists of at most n records over CoordPairs, named by position
CleanInputs(n) ==
  UNION { { [i \in 1..k |-> Rec(RecordNames[i], "TX", c[i][1], c[i][2])] :
              c \in [1..k -> CoordPairs] } : k \in 0..n }

(***************************************************************************)
(* The remote collaborator and execute_supabase_function.                  *)
(***************************************************************************)
FnMapPrimary == "get_map_data_with_tooltips"
FnMapAlt == "get_enhanced_map_data"
FnDemo == "get_demographic_summary"
FnDemoAlt == "get_demographic_and_psychographic_metrics"
FnInsights == "generate_market_insights"

\* the name under which the gateway looks for the payload of a call
PrimaryOf(fn) ==
  CASE fn \in {FnMapPrimary, FnMapAlt} -> FnMapPrimary
    [] fn \in {FnDemo, FnDemoAlt} -> FnDemo
    [] OTHER -> FnInsights

\* the i-th record of the remote dataset: valid numbers, valid numeric
\* strings, unparsable text, out-of-range latitude, in turn
RemoteRec(i) ==
  CASE i % 4 = 1 -> Rec("r", "TX", Num(297604), Num(-953698))
    [] i % 4 = 2 -> Rec("r", "CA", NumStr(340522), NumStr(-1182437))
    [] i % 4 = 3 -> Rec("r", "NY", Text, Num(-740060))
    [] OTHER     -> Rec("r", "FL", Num(910000), Num(-801918))

RemoteRecs(k) == [i \in 1..k |-> RemoteRec(i)]

\* remote records that carry no latitude / longitude keys
BareRecs(k) == [i \in 1..k |-> Rec("r", "TX", Absent, Absent)]

Outcome(kind, key, recs, error) ==
  [kind |-> kind, key |-> key, recs |-> recs, error |-> error]

\* what one rpc(function_name, params).execute() can do: the client is
\* missing, the call raises, response.data is empty, or response.data[0] is
\* some JSON value: a dict keyed by a function name holding the records (as
\* a list or as a JSON string), a dict with an "error" key, another dict, a
\* bare list, a string (with or without the text "error"), or a scalar
RemoteOutcomes(fn) ==
  {Outcome(kd, "", <<>>, kd) : kd \in {"no_client", "raises", "empty"}}
  \cup {Outcome("errdict", "", <<>>, "remote error")}
  \cup {Outcome(kd, "", <<>>, "") :
          kd \in {"dict_other", "str_plain", "str_error", "scalar"}}
  \cup {Outcome(kd, key, RemoteRecs(k), "") :
          kd \in {"wrapped", "wrapped_str"}, key \in {fn, PrimaryOf(fn)},
          k \in 0..MaxRemote}
  \cup {Outcome("list", "", RemoteRecs(k), "") : k \in 0..MaxRemote}
  \cup {Outcome("wrapped", PrimaryOf(fn), BareRecs(k), "") : k \in 1..MaxRemote}

\* generate_market_insights may also answer with an insights dict, its
\* "by_state" and "by_segment" lists holding the records
InsightsOutcomes ==
  RemoteOutcomes(FnInsights)
    \cup {Outcome("insights", "", RemoteRecs(k), "") : k \in 0..MaxRemote}

\* the remote call raises
RemoteDown == Outcome("raises", "", <<>>, "raises")

\* the value execute_supabase_function returns for an outcome
execute_supabase_function(o) ==
  IF o.kind \in {"no_client", "raises", "empty"}
  THEN Outcome("errdict", "", <<>>, o.error)
  ELSE o

IsDict(r) ==
  r.kind \in {"errdict", "wrapped", "wrapped_str", "dict_other", "insights"}

\* `"error" in result` / `name in result` raise TypeError on a scalar
InRaises(r) == r.kind = "scalar"

\* `"error" in result`: a key of a dict, a substring of a string
ErrorIn(r) == r.kind \in {"errdict", "str_error"}

\* `function_name in result`
KeyIn(r, fn) == r.kind \in {"wrapped", "wrapped_str"} /\ r.key = fn

\* isinstance(result, dict) and "error" in result
is_error_dict(r) == IsDict(r) /\ ErrorIn(r)

\* shape and records of `data` after extraction and json.loads
DataShape(r, fn) ==
  CASE KeyIn(r, fn) -> "list"
    [] r.kind = "list" -> "list"
    [] r.kind = "str_plain" -> "str"
    [] OTHER -> "dict"

DataRecs(r, fn) ==
  IF KeyIn(r, fn) \/ r.kind \in {"list", "insights"} THEN r.recs ELSE <<>>

(***************************************************************************)
(* The gateway operations (data_access.py).  Each is computed as a value:  *)
(* the remote calls made, whether the sample loader was called, whether an *)
(* exception left the function, and the value returned.                    *)
(***************************************************************************)
Ret(shape, data_shape, data, by_segment, has_error, error) ==
  [shape |-> shape, data_shape |-> data_shape, data |-> data,
   by_segment |-> by_segment, has_error |-> has_error, error |-> error]

NoRet == Ret("none", "none", <<>>, <<>>, FALSE, "")

RpcCall(fn, tp, sf, metric, o) ==
  [fn |-> fn, tier_percentage |-> tp, state_filter |-> sf,
   metric_column |-> metric, outcome |-> o.kind]

Call(op, sf, metric, tp, log, sample, raised, ret) ==
  [phase |-> "done", op |-> op, state_filter |-> sf, metric_column |-> metric,
   tier_percentage |-> tp, rpc_log |-> log, sample |-> sample,
   raised |-> raised, ret |-> ret]

NoCall ==
  [phase |-> "idle", op |-> "", state_filter |-> {}, metric_column |-> "",
   tier_percentage |-> 0, rpc_log |-> <<>>, sample |-> "none",
   raised |-> FALSE, ret |-> NoRet]

\* the bundled sample loader was not called, raised, or returned its data
Loader(sample_ok) == IF sample_ok THEN "loaded" ELSE "failed"

\* [city for city in sample_data["data"] if city["state"] in state_filter],
\* applied when state_filter is neither None nor empty
apply_state_filter(recs, sf) ==
  IF sf # {} THEN SelectSeq(recs, LAMBDA r : r.state \in sf) ELSE recs

\* get_map_data, fallback: limit = int(len * tier_percentage / 100)
map_tier_limit(recs, tp) ==
  IF tp < 100 THEN PySlice(recs, PyInt(Len(recs) * tp)) ELSE recs

\* get_demographic_summary and get_market_insights, fallback:
\* limit = max(1, int(len * tier_percentage / 100))
summary_tier_limit(recs, tp) ==
  IF tp < 100 THEN PySlice(recs, Max(1, PyInt(Len(recs) * tp))) ELSE recs

insights_tier_limit(recs, tp) ==
  IF tp < 100 THEN PySlice(recs, Max(1, PyInt(Len(recs) * tp))) ELSE recs

\* get_map_data: the second remote call is made when the first returned an
\* error dict
map_retries(r1) == is_error_dict(r1)

\* mutant: the retry is made for any dict, error or not
demographic_retries_any_dict(r1) == IsDict(r1)

\* get_demographic_summary: likewise
demographic_retries(r1) == is_error_dict(r1)

\* mutant: the alternate call loses the state filter
map_alt_params_nofilter(tp, sf) == [tier_percentage |-> tp, state_filter |-> {}]

\* parameters of the alternate map call
map_alt_params(tp, sf) == [tier_percentage |-> tp, state_filter |-> sf]

\* {"data": cleaned} or, when cleaning raises, {"data": data, "error": ...}
map_cleaned(shape, recs) ==
  IF clean_raises(shape, recs)
  THEN Ret("dict", shape, recs, <<>>, TRUE, "Lat/lon cleaning failed")
  ELSE Ret("dict", "list", clean_lat_lon(recs), <<>>, FALSE, "")

\* mutant: the sample is truncated before the state filter is applied
map_fallback_truncate_first(result, tp, sf, sample_ok) ==
  IF ~sample_ok
  THEN Ret("dict", "list", <<>>, <<>>, TRUE, result.error)
  ELSE map_cleaned("list", apply_state_filter(map_tier_limit(SampleCities, tp), sf))

\* lines 149-178: the fallback of get_map_data
map_fallback(result, tp, sf, sample_ok) ==
  IF ~sample_ok
  THEN Ret("dict", "list", <<>>, <<>>, TRUE, result.error)
  ELSE map_cleaned("list", map_tier_limit(apply_state_filter(SampleCities, sf), tp))

get_map_data(tier, sf, o1, o2, sample_ok) ==
  LET tp == da_get_tier_percentage(tier)
      r1 == execute_supabase_function(o1)
      retry == map_retries(r1)
      alt == map_alt_params(tp, sf)
      r2 == execute_supabase_function(o2)
      result == IF retry THEN r2 ELSE r1
      log == <<RpcCall(FnMapPrimary, tp, sf, "", o1)>>
             \o (IF retry
                 THEN <<RpcCall(FnMapAlt, alt.tier_percentage,
                                alt.state_filter, "", o2)>>
                 ELSE <<>>)
  IN  IF InRaises(result) \/ (ErrorIn(result) /\ ~IsDict(result))
      THEN \* TypeError from `"error" in result` or result['error']
           Call("get_map_data", sf, "", tp, log, "none", TRUE, NoRet)
      ELSE IF ErrorIn(result)
      THEN Call("get_map_data", sf, "", tp, log, Loader(sample_ok), FALSE,
                map_fallback(result, tp, sf, sample_ok))
      ELSE Call("get_map_data", sf, "", tp, log, "none", FALSE,
                map_cleaned(DataShape(result, FnMapPrimary),
                            DataRecs(result, FnMapPrimary)))

\* lines 237-255: the fallback of get_demographic_summary
demographic_fallback(result, tp, sample_ok) ==
  IF ~sample_ok
  THEN Ret("dict", "list", <<>>, <<>>, TRUE, result.error)
  ELSE Ret("dict", "list", summary_tier_limit(SampleSegments, tp), <<>>, FALSE, "")

\* a payload handed back as it came: `return data`
Passed(result, fn) ==
  Ret(DataShape(result, fn), DataShape(result, fn), DataRecs(result, fn),
      IF result.kind = "insights" THEN result.recs ELSE <<>>, FALSE, "")

get_demographic_summary(tier, sf, o1, o2, sample_ok) ==
  LET tp == da_get_tier_percentage(tier)
      r1 == execute_supabase_function(o1)
      retry == demographic_retries(r1)
      r2 == execute_supabase_function(o2)
      result == IF retry THEN r2 ELSE r1
      log == <<RpcCall(FnDemo, tp, sf, "", o1)>>
             \o (IF retry THEN <<RpcCall(FnDemoAlt, tp, sf, "", o2)>> ELSE <<>>)
  IN  IF InRaises(result) \/ (ErrorIn(result) /\ ~IsDict(result))
      THEN Call("get_demographic_summary", sf, "", tp, log, "none", TRUE, NoRet)
      ELSE IF ErrorIn(result)
      THEN Call("get_demographic_summary", sf, "", tp, log, Loader(sample_ok), FALSE,
                demographic_fallback(result, tp, sample_ok))
      ELSE Call("get_demographic_summary", sf, "", tp, log, "none", FALSE,
                Passed(result, FnDemo))

\* mutant: a failed loader leaves no error in the result
insights_fallback_silent(result, tp, sample_ok) ==
  IF ~sample_ok
  THEN Ret("dict", "list", <<>>, <<>>, FALSE, "")
  ELSE Ret("dict", "list", insights_tier_limit(SampleStates, tp),
           insights_tier_limit(SampleInsightSegments, tp), FALSE, "")

\* lines 294-317: the fallback of get_market_insights
insights_fallback(result, tp, sample_ok) ==
  IF ~sample_ok
  THEN Ret("dict", "list", <<>>, <<>>, TRUE, result.error)
  ELSE Ret("dict", "list", insights_tier_limit(SampleStates, tp),
           insights_tier_limit(SampleInsightSegments, tp), FALSE, "")

get_market_insights(tier, sf, metric, o1, sample_ok) ==
  LET tp == da_get_tier_percentage(tier)
      result == execute_supabase_function(o1)
      log == <<RpcCall(FnInsights, tp, sf, metric, o1)>>
  IN  IF InRaises(result) \/ (ErrorIn(result) /\ ~IsDict(result))
      THEN Call("get_market_insights", sf, metric, tp, log, "none", TRUE, NoRet)
      ELSE IF ErrorIn(result)
      THEN Call("get_market_insights", sf, metric, tp, log, Loader(sample_ok), FALSE,
                insights_fallback(result, tp, sample_ok))
      ELSE Call("get_market_insights", sf, metric, tp, log, "none", FALSE,
                Passed(result, FnInsights))

(***************************************************************************)
(* apply_tier_limit (tier_control.py)                                      *)
(***************************************************************************)
\* an argument of apply_tier_limit: a list, a response dict with a "data"
\* list (and possibly a "meta" mapping), a DataFrame, or another value
Arg(kind, items, has_meta, meta) ==
  [kind |-> kind, items |-> items, has_meta |-> has_meta, meta |-> meta]

NoMeta == [tier_limited |-> FALSE, tier_percentage |-> 0, showing |-> 0,
           total |-> 0, annotated |-> FALSE]

\* the four annotations written into data_copy["meta"]
Annotated(tp, showing, total) ==
  [tier_limited |-> TRUE, tier_percentage |-> tp, showing |-> showing,
   total |-> total, annotated |-> TRUE]

\* mutant: the minimum of one record is forgotten
limit_size_no_min(n, tp) == PyInt(n * tp)

\* limit_size = max(1, int(len(data) * tier_percentage / 100))
limit_size(n, tp) == Max(1, PyInt(n * tp))

\* `not data`: an empty list, None; a DataFrame has no truth value
Falsy(arg) == arg.kind = "none" \/ (arg.kind = "list" /\ Len(arg.items) = 0)

\* the percentage used: the override, or the registry's for the user's tier
limit_percentage(pct, tier) ==
  IF pct.given THEN pct.v ELSE get_tier_percentage(tier)

\* mutant: exactly 100 percent is not taken as full access
full_access_above(tp) == tp > 100

\* "If the tier has full access, return all data"
full_access(tp) == tp >= 100

\* returns [raised, ret, arg_after]: data.copy() is shallow, so an existing
\* "meta" mapping is shared between the argument and the returned copy
apply_tier_limit(arg, pct, tier) ==
  LET tp == limit_percentage(pct, tier)
      n == Len(arg.items)
      same == [raised |-> FALSE, ret |-> arg, arg_after |-> arg]
  IN  IF arg.kind = "dataframe"
      THEN [raised |-> TRUE, ret |-> arg, arg_after |-> arg]
      ELSE IF Falsy(arg) THEN same
      ELSE IF full_access(tp) THEN same
      ELSE IF arg.kind = "list"
      THEN [raised |-> FALSE,
            ret |-> [arg EXCEPT !.items = PySlice(arg.items, limit_size(n, tp))],
            arg_after |-> arg]
      ELSE IF arg.kind = "dict"
      THEN [raised |-> FALSE,
            ret |-> Arg("dict", PySlice(arg.items, limit_size(n, tp)), TRUE,
                        Annotated(tp, limit_size(n, tp), n)),
            arg_after |-> IF arg.has_meta
                          THEN [arg EXCEPT !.meta = Annotated(tp, limit_size(n, tp), n)]
                          ELSE arg]
      ELSE same

Items(n) == [i \in 1..n |-> i]

LimitArgs ==
  {Arg(kd, Items(n), FALSE, NoMeta) : kd \in {"list", "dict", "dataframe"},
                                      n \in 0..MaxLen}
  \cup {Arg("dict", Items(n), TRUE, NoMeta) : n \in 0..MaxLen}
  \cup {Arg("other", <<>>, FALSE, NoMeta), Arg("none", <<>>, FALSE, NoMeta)}

\* tier_percentage arguments: None, or an override
PctValues == {-5, 0, 1, 10, 33, 50, 66, 99, 100, 150}

PctArgs == {[given |-> FALSE, v |-> 0]} \cup {[given |-> TRUE, v |-> v] : v \in PctValues}

NoLimitCall ==
  [phase |-> "idle", arg |-> Arg("none", <<>>, FALSE, NoMeta),
   pct |-> [given |-> FALSE, v |-> 0], tier_percentage |-> 0,
   raised |-> FALSE, ret |-> Arg("none", <<>>, FALSE, NoMeta),
   arg_after |-> Arg("none", <<>>, FALSE, NoMeta)]

(***************************************************************************)
(* Session (tier_control.py)                                               *)
(***************************************************************************)
AccessFeature(required) ==
  CASE required = "Free" -> "access_Free_feature"
    [] required = "Accelerate" -> "access_Accelerate_feature"
    [] required = "Scale" -> "access_Scale_feature"
    [] OTHER -> "access_Enterprise_feature"

\* func.__name__ of a function decorated with tier_limited
LimitedFeature == "premium_function"

\* f"attempt_{feature_name}"
AttemptFeature(f) ==
  CASE f = "premium_function" -> "attempt_premium_function"
    [] OTHER -> "attempt_"

FeatureNames ==
  {AccessFeature(t) : t \in TierInputs}
    \cup {LimitedFeature, AttemptFeature(LimitedFeature)}

\* the record of a call to a function of tier_control.py
NoRegCall ==
  [phase |-> "idle", op |-> "", tier |-> "", arg |-> "",
   raised |-> FALSE, ret |-> NoneVal, update |-> ""]

\* mutant: the feature counter is reset to 1 instead of incremented
track_feature_usage_reset(f) ==
  /\ feature_usage' = [feature_usage EXCEPT ![f] = 1]
  /\ data_access_count' = data_access_count + 1

\* track_feature_usage(feature_name)
track_feature_usage(f) ==
  /\ feature_usage' = [feature_usage EXCEPT ![f] = @ + 1]
  /\ data_access_count' = data_access_count + 1

\* mutant: the name is stored without validation
set_user_tier_unvalidated(tier) ==
  /\ user_tier' = tier
  /\ tier_history' = Append(tier_history, [from |-> user_tier, to |-> tier])

\* mutant: the new tier is recorded as the previous one
set_user_tier_from_target(tier) ==
  IF tier \in DOMAIN TIER_DEFINITIONS
  THEN /\ user_tier' = tier
       /\ tier_history' = Append(tier_history, [from |-> tier, to |-> tier])
  ELSE UNCHANGED <<user_tier, tier_history>>

\* set_user_tier(tier): no change for a name outside the table; otherwise
\* the tier is stored and {"from": previous_tier, "to": tier} is appended to
\* tier_history (the timestamps are left out)
set_user_tier(tier) ==
  IF tier \in DOMAIN TIER_DEFINITIONS
  THEN /\ user_tier' = tier
       /\ tier_history' = Append(tier_history, [from |-> user_tier, to |-> tier])
  ELSE UNCHANGED <<user_tier, tier_history>>

\* the Supabase profile update inside set_user_tier: not connected, done,
\* or raising (caught and logged)
ProfileUpdates == {"none", "ok", "raises"}

\* mutant: a raising profile update makes the call report failure
set_user_tier_returns_strict(tier, update) ==
  tier \in DOMAIN TIER_DEFINITIONS /\ update # "raises"

\* the value set_user_tier returns
set_user_tier_returns(tier, update) == tier \in DOMAIN TIER_DEFINITIONS

(***************************************************************************)
(* Pages                                                                   *)
(***************************************************************************)
Pages == {"app", "where_to_invest", "who_to_target", "whats_changing",
          "how_to_engage", "roi_calculator", "connection_status"}

\* the argument of each page's enforce_tier call
RequiredTier(p) ==
  CASE p = "app" -> "Free"
    [] p \in {"where_to_invest", "who_to_target", "whats_changing"} -> "Accelerate"
    [] OTHER -> "Scale"

Step(op, metric) == [op |-> op, metric |-> metric]

\* the gateway calls of each page body, in program order
PageFetches(p) ==
  CASE p = "app" ->
         << Step("get_market_insights", "growth_rate"),
            Step("get_market_insights", "value"),
            Step("get_market_insights", "value") >>
    [] p = "where_to_invest" ->
         << Step("get_market_insights", "market_size"),
            Step("get_map_data", ""), Step("get_map_data", "") >>
    [] p = "how_to_engage" ->
         << Step("get_market_insights", "value"),
            Step("get_demographic_summary", "") >>
    [] p = "who_to_target" -> << Step("get_demographic_summary", "") >>
    [] OTHER -> << >>

\* the calls a run always makes; where_to_invest renders the map (its third
\* call) in view mode "map" only
RequiredFetches(p) == IF p = "where_to_invest" THEN 2 ELSE Len(PageFetches(p))

\* whether the page wraps its i-th gateway call in try/except: who_to_target
\* does not, nor does where_to_invest around render_opportunity_map
Catches(p, i) == ~(p = "who_to_target" \/ (p = "where_to_invest" /\ i = 3))

StateFilters == {{}, {"NY"}, {"TX"}, {"CA", "TX"}, {"ZZ"}}

(***************************************************************************)
(* Actions                                                                 *)
(***************************************************************************)
session == <<user_tier, tier_history, feature_usage, data_access_count>>
run == <<page, pc, idx, fetch_log>>

\* remote outcomes tried inside page runs
PageOutcomes(fn) ==
  {o \in RemoteOutcomes(fn) :
     \/ o.kind \in {"raises", "errdict", "scalar"}
     \/ o.kind = "wrapped" /\ o.key = PrimaryOf(fn) /\ Len(o.recs) = MaxRemote}

\* mutant: the comparison is off by one
tier_insufficient_le(tier, required) == TierLevel(tier) <= TierLevel(required)

\* enforce_tier: user_level < required_level
tier_insufficient(tier, required) == TierLevel(tier) < TierLevel(required)

\* a page script starts: everything before its enforce_tier call
StartRun(p) ==
  /\ pc \in {"idle", "done", "stopped", "crashed"}
  /\ page' = p /\ pc' = "enforce" /\ idx' = 1 /\ fetch_log' = <<>>
  /\ g' = NoCall
  /\ UNCHANGED <<session, atl, reg, cl, lib>>

\* st.rerun(): the same script starts again
Rerun ==
  /\ pc = "rerun"
  /\ pc' = "enforce" /\ idx' = 1 /\ fetch_log' = <<>>
  /\ g' = NoCall
  /\ UNCHANGED <<session, page, atl, reg, cl, lib>>

\* enforce_tier(required_tier), user_level >= required_level:
\* track_feature_usage and return True
EnforceTierAllow(required) ==
  /\ ~tier_insufficient(user_tier, required)
  /\ data_access_count < MaxUsage
  /\ track_feature_usage(AccessFeature(required))
  /\ pc' = "body"
  /\ UNCHANGED <<user_tier, tier_history, page, idx, fetch_log, g, atl>>

\* mutant: the upgrade page is rendered but the run is not halted
EnforceTierDenyNoStop(required) ==
  /\ tier_insufficient(user_tier, required)
  /\ pc' = "body"
  /\ UNCHANGED <<session, page, idx, fetch_log, g, atl>>

\* enforce_tier(required_tier), user_level < required_level: the upgrade page
\* is rendered (TIER_DEFINITIONS[required_tier] is subscripted there); a
\* pressed upgrade or switch button calls set_user_tier and st.rerun(),
\* otherwise st.stop() ends the run
EnforceTierDeny(required) ==
  /\ tier_insufficient(user_tier, required)
  /\ IF required \notin DOMAIN TIER_DEFINITIONS
     THEN pc' = "crashed" /\ UNCHANGED <<user_tier, tier_history>>
     ELSE \E click \in {"none"} \cup TierNames :
            IF click = "none"
            THEN pc' = "stopped" /\ UNCHANGED <<user_tier, tier_history>>
            ELSE /\ Len(tier_history) < MaxHistory
                 /\ pc' = "rerun" /\ set_user_tier(click)
  /\ UNCHANGED <<feature_usage, data_access_count, page, idx, fetch_log, g, atl>>

enforce_tier(required) == EnforceTierAllow(required) \/ EnforceTierDeny(required)

EnforceTier ==
  /\ pc = "enforce"
  /\ enforce_tier(RequiredTier(page))
  /\ UNCHANGED <<reg, cl, lib>>

\* the bookkeeping of a gateway call made by the page body
Fetched(op) ==
  /\ pc = "body"
  /\ idx <= Len(PageFetches(page))
  /\ PageFetches(page)[idx].op = op
  /\ fetch_log' = Append(fetch_log, op)
  /\ idx' = idx + 1
  /\ pc' = IF g'.raised /\ ~Catches(page, idx) THEN "crashed" ELSE "body"
  /\ UNCHANGED <<session, page, atl, reg, cl, lib>>

\* the state filters a page passes: none on the home page, the sidebar
\* selection (nothing, or some states) elsewhere
PageFilters(p) == IF p = "app" THEN {{}} ELSE {{}, {"NY"}}

\* the outcomes to choose for a second remote call: any when it is made
SecondOutcomes(fn, retried) == IF retried THEN PageOutcomes(fn) ELSE {RemoteDown}

\* the sample loader's outcomes to choose: both when the loader is called
LoaderOutcomes(result) == IF is_error_dict(result) THEN BOOLEAN ELSE {TRUE}

PageGetMapData ==
  /\ \E sf \in PageFilters(page), o1 \in PageOutcomes(FnMapPrimary) :
       LET r1 == execute_supabase_function(o1)
       IN  \E o2 \in SecondOutcomes(FnMapAlt, map_retries(r1)) :
             \E sample_ok \in LoaderOutcomes(IF map_retries(r1)
                                             THEN execute_supabase_function(o2)
                                             ELSE r1) :
               g' = get_map_data(user_tier, sf, o1, o2, sample_ok)
  /\ Fetched("get_map_data")

PageGetDemographicSummary ==
  /\ \E sf \in PageFilters(page), o1 \in PageOutcomes(FnDemo) :
       LET r1 == execute_supabase_function(o1)
       IN  \E o2 \in SecondOutcomes(FnDemoAlt, demographic_retries(r1)) :
             \E sample_ok \in LoaderOutcomes(IF demographic_retries(r1)
                                             THEN execute_supabase_function(o2)
                                             ELSE r1) :
               g' = get_demographic_summary(user_tier, sf, o1, o2, sample_ok)
  /\ Fetched("get_demographic_summary")

PageGetMarketInsights ==
  /\ pc = "body" /\ idx <= Len(PageFetches(page))
  /\ \E sf \in PageFilters(page), o1 \in PageOutcomes(FnInsights) :
       \E sample_ok \in LoaderOutcomes(execute_supabase_function(o1)) :
         g' = get_market_insights(user_tier, sf, PageFetches(page)[idx].metric,
                                  o1, sample_ok)
  /\ Fetched("get_market_insights")

\* the script runs to its end
EndRun ==
  /\ pc = "body"
  /\ idx > RequiredFetches(page)
  /\ pc' = "done"
  /\ UNCHANGED <<session, page, idx, fetch_log, g, atl, reg, cl, lib>>

Init ==
  /\ user_tier = "Free"
  /\ tier_history = <<>>
  /\ feature_usage = [f \in FeatureNames |-> 0]
  /\ data_access_count = 0
  /\ page = "" /\ pc = "idle" /\ idx = 1 /\ fetch_log = <<>>
  /\ g = NoCall
  /\ atl = NoLimitCall
  /\ reg = NoRegCall
  /\ cl = NoCleanCall
  /\ lib = NoLibCall

Next ==
  \/ \E p \in Pages : StartRun(p)
  \/ Rerun
  \/ EnforceTier
  \/ PageGetMapData
  \/ PageGetDemographicSummary
  \/ PageGetMarketInsights
  \/ EndRun

Spec == Init /\ [][Next]_vars

(***************************************************************************)
(* The gateway operations and apply_tier_limit on their own, one call at a *)
(* time: any tier name the session provider may supply, every filter,      *)
(* every remote outcome, every argument and percentage.                    *)
(***************************************************************************)
MetricColumns == {"market_size", "growth_rate", "value"}

NoCallPending ==
  g.phase = "idle" /\ atl.phase = "idle" /\ cl.phase = "idle" /\ lib.phase = "idle"

GetMapData ==
  /\ NoCallPending
  /\ \E sf \in StateFilters, o1 \in RemoteOutcomes(FnMapPrimary),
        o2 \in RemoteOutcomes(FnMapAlt), sample_ok \in BOOLEAN :
       g' = get_map_data(user_tier, sf, o1, o2, sample_ok)
  /\ UNCHANGED <<session, run, atl, reg, cl, lib>>

GetDemographicSummary ==
  /\ NoCallPending
  /\ \E sf \in StateFilters, o1 \in RemoteOutcomes(FnDemo),
        o2 \in RemoteOutcomes(FnDemoAlt), sample_ok \in BOOLEAN :
       g' = get_demographic_summary(user_tier, sf, o1, o2, sample_ok)
  /\ UNCHANGED <<session, run, atl, reg, cl, lib>>

GetMarketInsights ==
  /\ NoCallPending
  /\ \E sf \in StateFilters, metric \in MetricColumns,
        o1 \in InsightsOutcomes, sample_ok \in BOOLEAN :
       g' = get_market_insights(user_tier, sf, metric, o1, sample_ok)
  /\ UNCHANGED <<session, run, atl, reg, cl, lib>>

\* the _source label get_region_growth_data and get_top_segments put on
\* what they return, given the get_market_insights call they made and the
\* list they read from it: 'sample' when the call raised (caught), when
\* the insights are a dict with "error", when they are no dict
\* (insights.get raises, caught) and when the list is empty; else 'api'
insights_source(c, entries) ==
  IF c.raised THEN "sample"
  ELSE IF c.ret.shape = "dict" /\ c.ret.has_error THEN "sample"
  ELSE IF c.ret.shape # "dict" THEN "sample"
  ELSE IF entries # <<>> THEN "api"
  ELSE "sample"

\* get_region_growth_data(): [raised, insights, ret], ret the _source label
get_region_growth_data(tier, o1, sample_ok) ==
  LET c == get_market_insights(tier, {}, "growth_rate", o1, sample_ok)
  IN  [phase |-> "done", fn |-> "get_region_growth_data", limit |-> 0,
       raised |-> FALSE, insights |-> c,
       ret |-> <<insights_source(c, c.ret.data)>>]

TopLimits == {1, 5}

\* get_top_segments(limit): ret the _source labels of the entries: the five
\* sample segments cut to limit on an error dict, the top `limit` segments
\* of by_segment, or the single default entry
get_top_segments(tier, limit, o1, sample_ok) ==
  LET c == get_market_insights(tier, {}, "value", o1, sample_ok)
      src == insights_source(c, c.ret.by_segment)
      n == IF src = "api" THEN Min(limit, Len(c.ret.by_segment))
           ELSE IF ~c.raised /\ c.ret.shape = "dict" /\ c.ret.has_error
           THEN Min(limit, 5)
           ELSE 1
  IN  [phase |-> "done", fn |-> "get_top_segments", limit |-> limit,
       raised |-> FALSE, insights |-> c,
       ret |-> [i \in 1..n |-> src]]

GetRegionGrowthData ==
  /\ NoCallPending
  /\ \E o1 \in InsightsOutcomes, sample_ok \in BOOLEAN :
       lib' = get_region_growth_data(user_tier, o1, sample_ok)
  /\ UNCHANGED <<session, run, g, atl, reg, cl>>

GetTopSegments ==
  /\ NoCallPending
  /\ \E limit \in TopLimits, o1 \in InsightsOutcomes, sample_ok \in BOOLEAN :
       lib' = get_top_segments(user_tier, limit, o1, sample_ok)
  /\ UNCHANGED <<session, run, g, atl, reg, cl>>

ApplyTierLimit ==
  /\ NoCallPending
  /\ \E arg \in LimitArgs, pct \in PctArgs :
       LET r == apply_tier_limit(arg, pct, user_tier)
       IN  atl' = [phase |-> "done", arg |-> arg, pct |-> pct,
                   tier_percentage |-> limit_percentage(pct, user_tier),
                   raised |-> r.raised, ret |-> r.ret, arg_after |-> r.arg_after]
  /\ UNCHANGED <<session, run, g, reg, cl, lib>>

\* a row of the map DataFrame: growth_rate in tenths, market_size, and
\* opportunity_score in tenths (Absent: the record has no such key)
MapRow(growth, size, score) ==
  [growth_rate |-> growth, market_size |-> size, opportunity_score |-> score]

MapRows ==
  {MapRow(gr, ms, sc) : gr \in {-13, 25, 152}, ms \in {0, 20, 12345},
                        sc \in {Absent, Num(77)}}

MapFrames(n) == UNION {[1..k -> MapRows] : k \in 1..n}

\* mutant: the quotient is cut off instead of rounded
round_tenths_truncating(num, den) == num \div den

\* Series.round(1) of num / den, in tenths: the nearest tenth, the even one
\* of two equally near
round_tenths(num, den) ==
  LET q == num \div den
      r == num % den
  IN  IF 2 * r > den \/ (2 * r = den /\ q % 2 = 1) THEN q + 1 ELSE q

\* 'opportunity_score' not in df.columns
lacks_column(rows) == \A i \in 1..Len(rows) : rows[i].opportunity_score.k = "absent"

\* opportunity_map.py lines 124-125 (and 1141-1142)
add_opportunity_score(rows) ==
  IF lacks_column(rows)
  THEN [i \in 1..Len(rows) |->
          [rows[i] EXCEPT !.opportunity_score =
             Num(round_tenths(rows[i].growth_rate * rows[i].market_size, 1000))]]
  ELSE rows

AddOpportunityScore ==
  /\ NoCallPending
  /\ \E rows \in MapFrames(MaxRows) :
       lib' = [phase |-> "done", fn |-> "add_opportunity_score",
               arg |-> rows, ret |-> add_opportunity_score(rows)]
  /\ UNCHANGED <<session, run, g, atl, reg, cl>>

CleanLatLon ==
  /\ NoCallPending
  /\ \E recs \in CleanInputs(MaxClean) : cl' = CleanCall(recs)
  /\ UNCHANGED <<session, run, g, atl, reg, lib>>

\* the caller has taken the returned value; the next call starts afresh
ReturnToCaller ==
  /\ ~NoCallPending
  /\ g' = NoCall /\ atl' = NoLimitCall /\ cl' = NoCleanCall
  /\ lib' = NoLibCall
  /\ UNCHANGED <<session, run, reg>>

InitCalls ==
  /\ user_tier \in TierInputs
  /\ tier_history = <<>>
  /\ feature_usage = [f \in FeatureNames |-> 0]
  /\ data_access_count = 0
  /\ page = "" /\ pc = "body" /\ idx = 1 /\ fetch_log = <<>>
  /\ g = NoCall
  /\ atl = NoLimitCall
  /\ reg = NoRegCall
  /\ cl = NoCleanCall
  /\ lib = NoLibCall

NextCalls ==
  \/ GetMapData
  \/ GetDemographicSummary
  \/ GetMarketInsights
  \/ ApplyTierLimit
  \/ CleanLatLon
  \/ AddOpportunityScore
  \/ GetRegionGrowthData
  \/ GetTopSegments
  \/ ReturnToCaller

SpecCalls == InitCalls /\ [][NextCalls]_vars

(***************************************************************************)
(* The session and the registry on their own: scripts that call the        *)
(* functions of tier_control.py in any order, with any argument.           *)
(***************************************************************************)
RegCall(op, tier, arg, raised, ret) ==
  [phase |-> "done", op |-> op, tier |-> tier, arg |-> arg,
   raised |-> raised, ret |-> ret, update |-> ""]

\* the script is running and its previous call has returned
ScriptRunning == pc \in {"enforce", "body"} /\ reg.phase = "idle"

SessionGetUserTier ==
  /\ ScriptRunning
  /\ reg' = RegCall("get_user_tier", user_tier, "", FALSE, StrVal(user_tier))
  /\ UNCHANGED <<session, run, g, atl, cl, lib>>

SessionGetTierPercentage ==
  /\ ScriptRunning
  /\ reg' = RegCall("get_tier_percentage", user_tier, "", FALSE,
                    IntVal(get_tier_percentage(user_tier)))
  /\ UNCHANGED <<session, run, g, atl, cl, lib>>

SessionCanAccessFeature ==
  /\ ScriptRunning
  /\ \E f \in RegistryFeatures :
       reg' = RegCall("can_access_feature", user_tier, f, FALSE,
                      BoolVal(can_access_feature(user_tier, f)))
  /\ UNCHANGED <<session, run, g, atl, cl, lib>>

SessionGetFeatureLimitations ==
  /\ ScriptRunning
  /\ \E f \in RegistryFeatures :
       reg' = RegCall("get_feature_limitations", user_tier, f, FALSE,
                      get_feature_limitations(user_tier, f))
  /\ UNCHANGED <<session, run, g, atl, cl, lib>>

SessionSetUserTier ==
  /\ ScriptRunning
  /\ \E tier \in TierInputs, update \in ProfileUpdates :
       /\ tier \in DOMAIN TIER_DEFINITIONS => Len(tier_history) < MaxHistory
       /\ set_user_tier(tier)
       /\ reg' = [RegCall("set_user_tier", user_tier, tier, FALSE,
                          BoolVal(set_user_tier_returns(tier, update)))
                  EXCEPT !.update = update]
  /\ UNCHANGED <<feature_usage, data_access_count, run, g, atl, cl, lib>>

SessionTrackFeatureUsage ==
  /\ ScriptRunning
  /\ data_access_count < MaxUsage
  /\ \E f \in FeatureNames :
       /\ track_feature_usage(f)
       /\ reg' = RegCall("track_feature_usage", user_tier, f, FALSE, NoneVal)
  /\ UNCHANGED <<user_tier, tier_history, run, g, atl, cl, lib>>

\* enforce_tier(required_tier) with any name: "returned" (True), "halted"
\* (st.stop or st.rerun) or "raised"
SessionEnforceTier ==
  /\ pc = "enforce" /\ reg.phase = "idle"
  /\ \E required \in TierInputs :
       /\ enforce_tier(required)
       /\ reg' = RegCall("enforce_tier", user_tier, required, pc' = "crashed",
                         StrVal(CASE pc' = "body" -> "returned"
                               [] pc' = "crashed" -> "raised"
                               [] OTHER -> "halted"))
  /\ UNCHANGED <<cl, lib>>

\* the next script run of the same session
SessionNextRun ==
  /\ pc \in {"body", "stopped", "rerun", "crashed"} /\ reg.phase = "idle"
  /\ pc' = "enforce"
  /\ UNCHANGED <<session, page, idx, fetch_log, g, atl, reg, cl, lib>>

\* the required_tier keyword of a decorated call, "" when it is omitted
TierKeywords == TierInputs \cup {""}

\* mutant: an omitted keyword requires the top tier
required_tier_keyword_scale(kw) == IF kw = "" THEN "Scale" ELSE kw

\* kwargs.pop("required_tier", "Free")
required_tier_keyword(kw) == IF kw = "" THEN "Free" ELSE kw

\* feature_usage after track_feature_usage(f)
Tracked(usage, f) == [usage EXCEPT ![f] = @ + 1]

\* a call of a function decorated with tier_limited: the attempt is
\* tracked, enforce_tier decides, and on success the feature is tracked and
\* the body runs ("executed"); a denied call ends in st.stop() or, after a
\* pressed button, in set_user_tier and st.rerun() ("halted")
SessionTierLimited ==
  /\ ScriptRunning
  /\ data_access_count < MaxTracked
  /\ \E kw \in TierKeywords :
       LET required == required_tier_keyword(kw)
           attempted == Tracked(feature_usage, AttemptFeature(LimitedFeature))
       IN  IF ~tier_insufficient(user_tier, required)
           THEN /\ feature_usage' =
                     Tracked(Tracked(attempted, AccessFeature(required)),
                             LimitedFeature)
                /\ data_access_count' = data_access_count + 3
                /\ reg' = RegCall("tier_limited", user_tier, kw, FALSE,
                                  StrVal("executed"))
                /\ UNCHANGED <<user_tier, tier_history, pc>>
           ELSE /\ feature_usage' = attempted
                /\ data_access_count' = data_access_count + 1
                /\ IF required \notin DOMAIN TIER_DEFINITIONS
                   THEN /\ pc' = "crashed"
                        /\ reg' = RegCall("tier_limited", user_tier, kw, TRUE,
                                          StrVal("raised"))
                        /\ UNCHANGED <<user_tier, tier_history>>
                   ELSE /\ reg' = RegCall("tier_limited", user_tier, kw, FALSE,
                                          StrVal("halted"))
                        /\ \E click \in {"none"} \cup TierNames :
                             IF click = "none"
                             THEN /\ pc' = "stopped"
                                  /\ UNCHANGED <<user_tier, tier_history>>
                             ELSE /\ Len(tier_history) < MaxHistory
                                  /\ pc' = "rerun" /\ set_user_tier(click)
  /\ UNCHANGED <<page, idx, fetch_log, g, atl, cl, lib>>

\* the script has taken the value the call returned
SessionReturn ==
  /\ reg.phase = "done"
  /\ reg' = NoRegCall
  /\ UNCHANGED <<session, run, g, atl, cl, lib>>

NextSession ==
  \/ SessionGetUserTier
  \/ SessionGetTierPercentage
  \/ SessionCanAccessFeature
  \/ SessionGetFeatureLimitations
  \/ SessionSetUserTier
  \/ SessionTrackFeatureUsage
  \/ SessionEnforceTier
  \/ SessionTierLimited
  \/ SessionReturn
  \/ SessionNextRun

\* the session as tier_control.py initialises it
InitSession ==
  /\ user_tier = "Free"
  /\ tier_history = <<>>
  /\ feature_usage = [f \in FeatureNames |-> 0]
  /\ data_access_count = 0
  /\ page = "" /\ pc = "enforce" /\ idx = 1 /\ fetch_log = <<>>
  /\ g = NoCall
  /\ atl = NoLimitCall
  /\ reg = NoRegCall
  /\ cl = NoCleanCall
  /\ lib = NoLibCall

SpecSession == InitSession /\ [][NextSession]_vars

\* the registry read for any tier name the session may hold
InitRegistry ==
  /\ user_tier \in TierInputs
  /\ tier_history = <<>>
  /\ feature_usage = [f \in FeatureNames |-> 0]
  /\ data_access_count = 0
  /\ page = "" /\ pc = "enforce" /\ idx = 1 /\ fetch_log = <<>>
  /\ g = NoCall
  /\ atl = NoLimitCall
  /\ reg = NoRegCall
  /\ cl = NoCleanCall
  /\ lib = NoLibCall

SpecRegistry == InitRegistry /\ [][NextSession]_vars

(***************************************************************************)
(* The sample provider (utils/sample_data.py) called twice in one process, *)
(* directly and through the fallback of a gateway operation.  The values   *)
(* random.uniform returns during one call are one choice out of Draws.     *)
(***************************************************************************)
Draws == 1..MaxDraw

\* a dataset: its records, and the values of its randomly filled fields
Dataset(data, by_segment, rnd) ==
  [data |-> data, by_segment |-> by_segment, rnd |-> rnd]

NoDataset == Dataset(<<>>, <<>>, 0)

\* market_size, growth_rate and the indexes are drawn in each call
get_sample_map_data(draw) == Dataset(SampleCities, <<>>, draw)

\* a literal list of segments
get_sample_demographic_data(draw) == Dataset(SampleSegments, <<>>, 0)

\* belief_patterns of each state are drawn in each call
get_sample_market_insights(draw) ==
  Dataset(SampleStates, SampleInsightSegments, draw)

SampleFunctions ==
  {"get_sample_map_data", "get_sample_demographic_data",
   "get_sample_market_insights"}

SampleFunction(fn, draw) ==
  CASE fn = "get_sample_map_data" -> get_sample_map_data(draw)
    [] fn = "get_sample_demographic_data" -> get_sample_demographic_data(draw)
    [] OTHER -> get_sample_market_insights(draw)

\* the sample function behind the fallback of a gateway operation
SampleOf(op) ==
  CASE op = "get_map_data" -> "get_sample_map_data"
    [] op = "get_demographic_summary" -> "get_sample_demographic_data"
    [] OTHER -> "get_sample_market_insights"

\* what a gateway operation returns when the remote calls raise and the
\* sample loads: the records the fallback keeps, with the values drawn
FallbackFetch(op, tier, sf, draw) ==
  LET c == CASE op = "get_map_data" ->
                  get_map_data(tier, sf, RemoteDown, RemoteDown, TRUE)
             [] op = "get_demographic_summary" ->
                  get_demographic_summary(tier, sf, RemoteDown, RemoteDown, TRUE)
             [] OTHER ->
                  get_market_insights(tier, sf, "value", RemoteDown, TRUE)
  IN  Dataset(c.ret.data, c.ret.by_segment,
              IF Len(c.ret.data) = 0 THEN 0
              ELSE SampleFunction(SampleOf(op), draw).rnd)

SampleCalls(fn, sf, n, first, second) ==
  [phase |-> "done", fn |-> fn, state_filter |-> sf, calls |-> n,
   first |-> first, second |-> second]

FirstSampleCall ==
  /\ lib.phase = "idle"
  /\ \E fn \in SampleFunctions, draw \in Draws :
       lib' = SampleCalls(fn, {}, 1, SampleFunction(fn, draw), NoDataset)
  /\ UNCHANGED <<session, run, g, atl, reg, cl>>

FirstFallbackFetch ==
  /\ lib.phase = "idle"
  /\ \E op \in {"get_map_data", "get_demographic_summary",
                 "get_market_insights"}, sf \in StateFilters, draw \in Draws :
       lib' = SampleCalls(op, sf, 1, FallbackFetch(op, user_tier, sf, draw),
                          NoDataset)
  /\ UNCHANGED <<session, run, g, atl, reg, cl>>

\* the same function is called again, with the same tier and filter
SecondCall ==
  /\ lib.phase = "done" /\ lib.calls = 1
  /\ \E draw \in Draws :
       lib' = [lib EXCEPT
                 !.calls = 2,
                 !.second = IF lib.fn \in SampleFunctions
                            THEN SampleFunction(lib.fn, draw)
                            ELSE FallbackFetch(lib.fn, user_tier,
                                               lib.state_filter, draw)]
  /\ UNCHANGED <<session, run, g, atl, reg, cl>>

SamplesCompared ==
  /\ lib.phase = "done" /\ lib.calls = 2
  /\ lib' = NoLibCall
  /\ UNCHANGED <<session, run, g, atl, reg, cl>>

NextSample ==
  \/ FirstSampleCall
  \/ FirstFallbackFetch
  \/ SecondCall
  \/ SamplesCompared

SpecSample == InitCalls /\ [][NextSample]_vars

(***************************************************************************)
(* Properties                                                              *)
(***************************************************************************)
Denied == pc \in {"stopped", "rerun"}

\* outcomes of a remote call that execute_supabase_function reports as an
\* error dict
ErrorOutcomes == {"no_client", "raises", "empty", "errdict"}

SameParams(c1, c2) ==
  /\ c1.tier_percentage = c2.tier_percentage
  /\ c1.state_filter = c2.state_filter
  /\ c1.metric_column = c2.metric_column

\* C1: enforce_tier(required) halts the run (st.stop, or st.rerun after a
\* pressed button) exactly when level(active) < level(required), and
\* otherwise returns True and the page body runs
C1_EnforceDecides ==
  [][pc = "enforce" =>
       /\ (pc' \in {"stopped", "rerun"})
            <=> (TierLevel(user_tier) < TierLevel(RequiredTier(page)))
       /\ (pc' = "body")
            <=> (TierLevel(user_tier) >= TierLevel(RequiredTier(page)))]_vars

C1_Witness ==
  /\ pc = "stopped" /\ page = "how_to_engage" /\ user_tier = "Accelerate"

\* C2: in a page run whose active tier is below the page's required tier no
\* gateway operation is called: calls are seen only in runs that passed
\* enforce_tier, and a halted run has made none
C2_NoFetchWhenDenied ==
  /\ (fetch_log # <<>> \/ g.phase # "idle") =>
       /\ pc \in {"body", "done", "crashed"}
       /\ TierLevel(user_tier) >= TierLevel(RequiredTier(page))
  /\ Denied => (fetch_log = <<>> /\ g = NoCall)

C2_Witness ==
  /\ pc = "stopped" /\ page = "where_to_invest" /\ user_tier = "Free"
  /\ fetch_log = <<>>

\* C3: the tier percentage a gateway operation resolves equals the tier
\* registry's data percentage for the same tier
C3_PercentageMatchesRegistry ==
  g.phase = "done" => g.tier_percentage = get_tier_percentage(user_tier)

\* C4: no gateway operation lets an exception escape to its caller
C4_NeverRaises == ~g.raised

\* C5: get_map_data calls the primary function first, the alternate one once
\* and with the same parameters only after the primary returned an error,
\* and loads sample data only after the alternate returned an error too
C5_MapSourceOrder ==
  (g.phase = "done" /\ g.op = "get_map_data") =>
    LET log == g.rpc_log IN
    /\ Len(log) \in {1, 2}
    /\ log[1].fn = FnMapPrimary
    /\ log[1].tier_percentage = g.tier_percentage
    /\ log[1].state_filter = g.state_filter
    /\ Len(log) = 2 =>
         /\ log[1].outcome \in ErrorOutcomes
         /\ log[2].fn = FnMapAlt
         /\ SameParams(log[1], log[2])
    /\ g.sample # "none" =>
         /\ Len(log) = 2
         /\ log[2].outcome \in ErrorOutcomes

C5_Witness ==
  /\ g.phase = "done" /\ g.op = "get_map_data"
  /\ Len(g.rpc_log) = 2 /\ g.state_filter = {"CA", "TX"}
  /\ g.sample = "loaded"

\* C6 as stated: get_demographic_summary and get_market_insights each make
\* exactly one remote call
C6_OneRemoteCall ==
  (g.phase = "done" /\ g.op \in {"get_demographic_summary", "get_market_insights"})
    => Len(g.rpc_log) = 1

\* C6 amended: get_market_insights makes exactly one remote call;
\* get_demographic_summary makes a second one, under the alternate name and
\* with the same parameters, exactly when the first returned an error dict
C6_RemoteCalls ==
  /\ (g.phase = "done" /\ g.op = "get_market_insights") =>
       /\ Len(g.rpc_log) = 1
       /\ g.rpc_log[1].fn = FnInsights
  /\ (g.phase = "done" /\ g.op = "get_demographic_summary") =>
       LET log == g.rpc_log IN
       /\ Len(log) \in {1, 2}
       /\ log[1].fn = FnDemo
       /\ (Len(log) = 2) <=> (log[1].outcome \in ErrorOutcomes)
       /\ Len(log) = 2 => (log[2].fn = FnDemoAlt /\ SameParams(log[1], log[2]))
       /\ g.sample # "none" => (Len(log) = 2 /\ log[2].outcome \in ErrorOutcomes)

C6_Witness ==
  /\ g.phase = "done" /\ g.op = "get_demographic_summary"
  /\ Len(g.rpc_log) = 2 /\ g.rpc_log[2].fn = FnDemoAlt
  /\ g.sample = "loaded"

\* the sample list a fallback starts from, after the state filter the
\* operation applies (get_map_data only)
FallbackList(c) ==
  CASE c.op = "get_map_data" ->
         IF c.state_filter = {} THEN SampleCities
         ELSE SelectSeq(SampleCities, LAMBDA r : r.state \in c.state_filter)
    [] c.op = "get_demographic_summary" -> SampleSegments
    [] OTHER -> SampleStates

Floor(n, P) == (n * P) \div 100

\* C7: on the fallback path with P < 100 and n >= 1 sample records after
\* the state filter, the records kept are the first max(1, floor(n*P/100))
C7_FallbackKeepsPrefix ==
  (g.phase = "done" /\ g.sample = "loaded" /\ g.tier_percentage < 100
     /\ Len(FallbackList(g)) >= 1) =>
    LET n == Len(FallbackList(g))
        k == Max(1, Floor(n, g.tier_percentage))
    IN  /\ g.ret.data = SubSeq(FallbackList(g), 1, k)
        /\ g.op = "get_market_insights" =>
             g.ret.by_segment =
               SubSeq(SampleInsightSegments, 1,
                      Max(1, Floor(Len(SampleInsightSegments), g.tier_percentage)))

\* records available to the call: the remote dataset when the remote path
\* answered, the (filtered) sample list on the fallback path
TotalAvailable(c) == IF c.sample = "loaded" THEN Len(FallbackList(c)) ELSE MaxRemote

\* total * P / 100 rounded up, at least 1 when records exist
Quota(total, P) ==
  IF total = 0 THEN 0 ELSE Max(1, (total * P + 99) \div 100)

\* C8: a success payload never holds more records than the tier's quota
C8_WithinQuota ==
  (g.phase = "done" /\ ~g.raised /\ ~g.ret.has_error) =>
    Len(g.ret.data) <= Quota(TotalAvailable(g), g.tier_percentage)

\* C9: for N records and P < 100, apply_tier_limit returns the first
\* max(1, floor(N*P/100)) records when N > 0 and none when N = 0, for a list
\* and for the list inside a response dict
C9_LimitKeepsPrefix ==
  (atl.phase = "done" /\ atl.arg.kind \in {"list", "dict"}
     /\ atl.tier_percentage < 100) =>
    LET n == Len(atl.arg.items) IN
    /\ ~atl.raised
    /\ atl.ret.kind = atl.arg.kind
    /\ n > 0 => atl.ret.items =
                  SubSeq(atl.arg.items, 1, Max(1, Floor(n, atl.tier_percentage)))
    /\ n = 0 => atl.ret.items = <<>>

C9_Witness ==
  /\ atl.phase = "done" /\ atl.arg.kind = "list"
  /\ Len(atl.arg.items) = 1 /\ atl.tier_percentage = 33
  /\ atl.ret.items = <<1>>

FreeEntry == TIER_DEFINITIONS["Free"]

\* what the "Free" entry answers for feature f
FreeCanAccess(f) ==
  /\ f \in DOMAIN FreeEntry.features
  /\ FreeEntry.features[f] \in {BoolVal(TRUE)} \cup
       {StrVal(t) : t \in {"Limited to 10% of data points", "Community forum"}}

FreeLimitations(f) ==
  IF f \in DOMAIN FreeEntry.features /\ FreeEntry.features[f].k = "str"
  THEN FreeEntry.features[f] ELSE NoneVal

\* the level of a required tier, read from the table
RequiredLevel(required) ==
  IF required \in DOMAIN TIER_DEFINITIONS
  THEN TIER_DEFINITIONS[required].level ELSE 0

C11_UnknownTierIsFree ==
  /\ ~reg.raised
  /\ pc # "crashed"
  /\ (reg.phase = "done" /\ reg.tier = UnknownTier) =>
       /\ reg.op = "get_tier_percentage" =>
            reg.ret = IntVal(FreeEntry.data_percentage)
       /\ reg.op = "can_access_feature" =>
            reg.ret = BoolVal(FreeCanAccess(reg.arg))
       /\ reg.op = "get_feature_limitations" =>
            reg.ret = FreeLimitations(reg.arg)
       /\ reg.op = "enforce_tier" =>
            (reg.ret = StrVal("returned") <=>
               FreeEntry.level >= RequiredLevel(reg.arg))
  /\ (reg.phase = "done" /\ reg.op = "enforce_tier" /\ reg.arg = UnknownTier) =>
       reg.ret = StrVal("returned")

\* an unknown active tier was denied a paid page, and read a feature
C11_Witness ==
  /\ reg.phase = "done" /\ reg.tier = UnknownTier
  /\ reg.op = "enforce_tier" /\ reg.arg = "Accelerate"
  /\ reg.ret = StrVal("halted")

(***************************************************************************)
(* C12: every record get_map_data returns, on every path (cleaning-failure *)
(* paths included), has a numeric latitude in [-90, 90] and a numeric      *)
(* longitude in [-180, 180].                                               *)
(***************************************************************************)
C12_ReturnedCoordsValid ==
  (g.phase = "done" /\ g.op = "get_map_data" /\ ~g.raised) =>
    \A i \in 1..Len(g.ret.data) : CoordsValid(g.ret.data[i])

(***************************************************************************)
(* C13: clean_lat_lon on a list of records removes exactly the records     *)
(* whose latitude or longitude is non-numeric, missing or outside          *)
(* [-90, 90] / [-180, 180] (bounds kept) and returns the others in their   *)
(* original order, other fields unchanged.                                 *)
(***************************************************************************)
Numeric(c) == c.k \in {"num", "numstr"}

ToBeKept(r) ==
  /\ Numeric(r.latitude) /\ Numeric(r.longitude)
  /\ -900000 <= r.latitude.v /\ r.latitude.v <= 900000
  /\ -1800000 <= r.longitude.v /\ r.longitude.v <= 1800000

\* out is the records of inp that are to be kept, in order, fields intact
KeepsExactly(inp, out) ==
  /\ Len(out) = Cardinality({i \in 1..Len(inp) : ToBeKept(inp[i])})
  /\ \A i \in 1..Len(inp) :
       ToBeKept(inp[i]) =>
         \E j \in 1..Len(out) :
           /\ out[j].name = inp[i].name /\ out[j].state = inp[i].state
           /\ out[j].extra = inp[i].extra
           /\ out[j].latitude = Num(inp[i].latitude.v)
           /\ out[j].longitude = Num(inp[i].longitude.v)
  /\ \A j, k \in 1..Len(out) :
       j < k => \E a, b \in 1..Len(inp) :
                  a < b /\ inp[a].name = out[j].name /\ inp[b].name = out[k].name

C13_CleanRemovesExactlyInvalid ==
  cl.phase = "done" => (~cl.raised /\ KeepsExactly(cl.arg, cl.ret))

(***************************************************************************)
(* C14: on the fallback path of get_map_data the state filter runs first,  *)
(* then the percentage truncation, then the coordinate sanitation: the     *)
(* data returned is sanitize(truncate(filter(sample))).                    *)
(***************************************************************************)
Truncated(recs, P) ==
  IF P < 100 THEN SubSeq(recs, 1, Floor(Len(recs), P)) ELSE recs

Sanitized(recs) == SelectSeq(recs, ToBeKept)

FailureReason(c) ==
  LET last == c.rpc_log[Len(c.rpc_log)].outcome
  IN  IF last = "errdict" THEN "remote error" ELSE last

C15_BothFailStructured ==
  (g.phase = "done" /\ g.sample = "failed") =>
    /\ ~g.raised
    /\ g.ret.shape = "dict"
    /\ g.ret.data = <<>> /\ g.ret.by_segment = <<>>
    /\ g.ret.has_error
    /\ g.ret.error = FailureReason(g)

\* the insights call failed remotely and its sample loader failed
C15_Witness ==
  /\ g.phase = "done" /\ g.sample = "failed"
  /\ g.op = "get_market_insights"
  /\ g.rpc_log[1].outcome = "raises"

(***************************************************************************)
(* C16: the result of a gateway operation carries an error field exactly   *)
(* when neither the remote path nor the sample path produced a dataset; a  *)
(* result built from a loaded sample, even one filtered or truncated to    *)
(* the empty list, carries none.                                           *)
(***************************************************************************)
C16_ErrorIffFullyFailed ==
  (g.phase = "done" /\ ~g.raised) =>
    (g.ret.has_error <=> g.sample = "failed")

(***************************************************************************)
(* C17: on the fallback path with a non-empty state filter, every record   *)
(* returned (map points, demographic summary, by_state insights) belongs   *)
(* to a state of the filter.                                               *)
(***************************************************************************)
C17_FallbackHonoursFilter ==
  (g.phase = "done" /\ g.sample = "loaded" /\ g.state_filter # {}) =>
    \A i \in 1..Len(g.ret.data) : g.ret.data[i].state \in g.state_filter

(***************************************************************************)
(* C18: when the remote map call fails and get_map_data falls back to the  *)
(* sample, every record returned has an opportunity_score field.           *)
(***************************************************************************)
C18_FallbackHasOpportunityScore ==
  (g.phase = "done" /\ g.op = "get_map_data" /\ g.sample = "loaded") =>
    \A i \in 1..Len(g.ret.data) : "opportunity_score" \in g.ret.data[i].extra

(***************************************************************************)
(* C19: in one run of a page each of get_map_data, get_demographic_summary *)
(* and get_market_insights is invoked at most once.                        *)
(***************************************************************************)
Invocations(op) == Cardinality({i \in 1..Len(fetch_log) : fetch_log[i] = op})

C19_OneCallPerDataset ==
  \A op \in {"get_map_data", "get_demographic_summary", "get_market_insights"} :
    Invocations(op) <= 1

(***************************************************************************)
(* C20: a session starts with the active tier "Free"; whatever calls of    *)
(* get_user_tier, set_user_tier, track_feature_usage and enforce_tier      *)
(* follow, the active tier is one of Free, Accelerate, Scale, and it       *)
(* changes only by a set_user_tier call with a valid name (made by the     *)
(* script, or by a button of the upgrade page enforce_tier renders).       *)
(***************************************************************************)
TierChangedBySetUserTier ==
  user_tier' # user_tier =>
    /\ user_tier' \in DOMAIN TIER_DEFINITIONS
    /\ \/ reg'.op = "set_user_tier" /\ reg'.arg = user_tier'
       \/ /\ reg'.op \in {"enforce_tier", "tier_limited"}
          /\ reg'.ret = StrVal("halted") /\ pc' = "rerun"

FeatureMap(tier) == TIER_DEFINITIONS[tier].features

Allowed(tier, f) ==
  /\ f \in DOMAIN FeatureMap(tier)
  /\ FeatureMap(tier)[f] = BoolVal(TRUE) \/ FeatureMap(tier)[f].k = "str"

C21_FeatureAccess ==
  (reg.phase = "done" /\ reg.tier \in DOMAIN TIER_DEFINITIONS) =>
    /\ reg.op = "can_access_feature" =>
         reg.ret = BoolVal(Allowed(reg.tier, reg.arg))
    /\ reg.op = "get_feature_limitations" =>
         /\ reg.ret = IF reg.arg \in DOMAIN FeatureMap(reg.tier)
                         /\ FeatureMap(reg.tier)[reg.arg].k = "str"
                      THEN FeatureMap(reg.tier)[reg.arg] ELSE NoneVal
         /\ reg.ret # NoneVal => can_access_feature(reg.tier, reg.arg)

\* a feature whose value is a text was reported as allowed
C21_Witness ==
  /\ reg.phase = "done" /\ reg.op = "can_access_feature"
  /\ reg.tier = "Accelerate" /\ reg.arg = "market_map"
  /\ reg.ret = BoolVal(TRUE)

(***************************************************************************)
(* C22: in each percentage table of the program (the registry's            *)
(* data_percentage and the gateway's TIER_ACCESS) the percentage does not  *)
(* decrease as the tier level grows, lies in 0..100, and is 100 for Scale; *)
(* so is the percentage every gateway call resolves.                       *)
(***************************************************************************)
LevelOrder == <<"Free", "Accelerate", "Scale">>

\* pct: a function from the tier names to percentages
MonotoneTable(pct) ==
  /\ \A i, j \in 1..3 : i <= j => pct[LevelOrder[i]] <= pct[LevelOrder[j]]
  /\ \A i \in 1..3 : pct[LevelOrder[i]] \in 0..100
  /\ pct["Scale"] = 100

C22_PercentagesMonotone ==
  /\ \A i, j \in 1..3 :
       i <= j => TIER_DEFINITIONS[LevelOrder[i]].level
                   <= TIER_DEFINITIONS[LevelOrder[j]].level
  /\ MonotoneTable([t \in TierNames |-> TIER_DEFINITIONS[t].data_percentage])
  /\ MonotoneTable(TIER_ACCESS)
  /\ g.phase = "done" =>
       /\ g.tier_percentage \in 0..100
       /\ user_tier = "Scale" => g.tier_percentage = 100
       /\ \A t \in DOMAIN TIER_ACCESS :
            TierLevel(t) <= TierLevel(user_tier) =>
              da_get_tier_percentage(t) <= g.tier_percentage

\* a gateway call resolved a percentage below 100 for a paid tier
C22_Witness ==
  /\ g.phase = "done" /\ user_tier = "Accelerate"
  /\ g.tier_percentage = 66

(***************************************************************************)
(* C23: the sample provider is deterministic: two calls of the same sample *)
(* function in one process return identical datasets, and so do two        *)
(* fallback fetches with the same tier and filter.                         *)
(***************************************************************************)
C23_SampleDeterministic ==
  (lib.phase = "done" /\ lib.calls = 2) => lib.first = lib.second

(***************************************************************************)
(* C24: when the map data has no opportunity_score, every record gets      *)
(* growth_rate * market_size / 1000 rounded to one decimal; when the data  *)
(* carries opportunity_score, the existing values stay as they are.        *)
(***************************************************************************)
Carries(row) == row.opportunity_score.k = "num"

\* score (in tenths) is a tenth nearest to growth * size / 1000, growth
\* being in tenths
NearestTenth(score, growth, size) ==
  LET d == score * 1000 - growth * size
  IN  -500 <= d /\ d <= 500

C24_OpportunityScoreDerived ==
  (lib.phase = "done" /\ lib.fn = "add_opportunity_score") =>
    /\ Len(lib.ret) = Len(lib.arg)
    /\ \A i \in 1..Len(lib.arg) :
         /\ lib.ret[i].growth_rate = lib.arg[i].growth_rate
         /\ lib.ret[i].market_size = lib.arg[i].market_size
         /\ Carries(lib.arg[i]) =>
              lib.ret[i].opportunity_score = lib.arg[i].opportunity_score
    /\ (\A i \in 1..Len(lib.arg) : ~Carries(lib.arg[i])) =>
         \A i \in 1..Len(lib.arg) :
           /\ Carries(lib.ret[i])
           /\ NearestTenth(lib.ret[i].opportunity_score.v,
                           lib.arg[i].growth_rate, lib.arg[i].market_size)

\* 15.2 * 12345 / 1000 = 187.644 was stored as 187.6
C24_Witness ==
  /\ lib.phase = "done" /\ lib.fn = "add_opportunity_score"
  /\ Len(lib.arg) = 2
  /\ ~Carries(lib.arg[1]) /\ ~Carries(lib.arg[2])
  /\ lib.arg[2].growth_rate = 152 /\ lib.arg[2].market_size = 12345
  /\ lib.ret[2].opportunity_score = Num(1876)

(***************************************************************************)
(* C25: set_user_tier(t) with t outside the tier table returns False and   *)
(* leaves the session as it was (tier, tier_history, counters); with a     *)
(* valid t it returns True, makes t the active tier and appends exactly    *)
(* one tier_history entry from the tier active before to t, also when the  *)
(* Supabase profile update raises.                                         *)
(***************************************************************************)
SetUserTierCalled ==
  reg.phase = "idle" /\ reg'.phase = "done" /\ reg'.op = "set_user_tier"

SetUserTierEffect ==
  SetUserTierCalled =>
    /\ UNCHANGED <<feature_usage, data_access_count>>
    /\ IF reg'.arg \in {"Free", "Accelerate", "Scale"}
       THEN /\ reg'.ret = BoolVal(TRUE)
            /\ user_tier' = reg'.arg
            /\ Len(tier_history') = Len(tier_history) + 1
            /\ SubSeq(tier_history', 1, Len(tier_history)) = tier_history
            /\ tier_history'[Len(tier_history')].from = user_tier
            /\ tier_history'[Len(tier_history')].to = reg'.arg
       ELSE /\ reg'.ret = BoolVal(FALSE)
            /\ UNCHANGED <<user_tier, tier_history>>

C25_SetUserTier == [][SetUserTierEffect]_vars

\* a second change was recorded although the profile update raised
C25_Witness ==
  /\ reg.phase = "done" /\ reg.op = "set_user_tier"
  /\ reg.update = "raises" /\ reg.ret = BoolVal(TRUE)
  /\ tier_history = << [from |-> "Free", to |-> "Accelerate"],
                       [from |-> "Accelerate", to |-> "Scale"] >>
  /\ user_tier = "Scale"

(***************************************************************************)
(* C26: a function wrapped by tier_limited runs its body iff the active    *)
(* tier's level is at least the level of the required_tier keyword (Free   *)
(* when omitted); every call increments attempt_<feature>, only allowed    *)
(* calls increment <feature>, and a denied call halts the page run         *)
(* without running the body.                                               *)
(***************************************************************************)
TierLimitedCalled ==
  reg.phase = "idle" /\ reg'.phase = "done" /\ reg'.op = "tier_limited"

KeywordLevel(kw) == IF kw = "" THEN 0 ELSE RequiredLevel(kw)

TierLimitedEffect ==
  TierLimitedCalled =>
    LET allowed == TIER_DEFINITIONS[user_tier].level >= KeywordLevel(reg'.arg)
        attempt == AttemptFeature(LimitedFeature)
    IN  /\ reg'.ret = StrVal("executed") <=> allowed
        /\ feature_usage'[attempt] = feature_usage[attempt] + 1
        /\ feature_usage'[LimitedFeature] =
             feature_usage[LimitedFeature] + (IF allowed THEN 1 ELSE 0)
        /\ allowed => pc' = pc
        /\ ~allowed => (reg'.ret = StrVal("halted") /\ pc' \in {"stopped", "rerun"})

HistoryChain ==
  /\ \A i \in 1..Len(tier_history) :
       tier_history[i].from =
         (IF i = 1 THEN "Free" ELSE tier_history[i - 1].to)
  /\ user_tier =
       (IF tier_history = <<>> THEN "Free"
        ELSE tier_history[Len(tier_history)].to)

\* the step holds a set_user_tier call that returned True: a direct call,
\* or the one behind a pressed upgrade button of enforce_tier
SetUserTierSucceeded ==
  /\ reg.phase = "idle" /\ reg'.phase = "done"
  /\ \/ reg'.op = "set_user_tier" /\ reg'.ret = BoolVal(TRUE)
     \/ reg'.op \in {"enforce_tier", "tier_limited"} /\ pc' = "rerun"

HistoryCounts ==
  Len(tier_history') =
    Len(tier_history) + (IF SetUserTierSucceeded THEN 1 ELSE 0)

C27_TierHistoryChain == []HistoryChain /\ [][HistoryCounts]_vars

\* two successful changes, Free to Scale and back to Accelerate
C27_Witness ==
  /\ Len(tier_history) = 2
  /\ tier_history[1] = [from |-> "Free", to |-> "Scale"]
  /\ tier_history[2] = [from |-> "Scale", to |-> "Accelerate"]
  /\ user_tier = "Accelerate"

(***************************************************************************)
(* C28: data_access_count is always the sum of the feature_usage counters; *)
(* a track_feature_usage call adds one to exactly one counter and to       *)
(* data_access_count, and get_user_tier, set_user_tier and a denied        *)
(* enforce_tier change neither.                                            *)
(***************************************************************************)
RECURSIVE UsageSum(_, _)
UsageSum(usage, names) ==
  IF names = {} THEN 0
  ELSE LET f == CHOOSE x \in names : TRUE
       IN  usage[f] + UsageSum(usage, names \ {f})

UsageCounted == data_access_count = UsageSum(feature_usage, DOMAIN feature_usage)

UsageFrame ==
  (reg.phase = "idle" /\ reg'.phase = "done") =>
    /\ reg'.op = "track_feature_usage" =>
         /\ data_access_count' = data_access_count + 1
         /\ feature_usage' = [feature_usage EXCEPT ![reg'.arg] = @ + 1]
    /\ \/ reg'.op \in {"get_user_tier", "set_user_tier"}
       \/ reg'.op = "enforce_tier" /\ reg'.ret = StrVal("halted")
       => UNCHANGED <<feature_usage, data_access_count>>

C28_UsageCounted == []UsageCounted /\ [][UsageFrame]_vars

\* the same feature tracked twice, then a denied enforce_tier
C28_Witness ==
  /\ reg.phase = "done" /\ reg.op = "enforce_tier" /\ reg.ret = StrVal("halted")
  /\ data_access_count = 2
  /\ feature_usage[AccessFeature("Free")] = 2

(***************************************************************************)
(* C29: apply_tier_limit never modifies its input: after the call the      *)
(* argument, its 'data' list and any existing 'meta' mapping are what they *)
(* were before, the tier-limit annotations being in the returned copy      *)
(* only.                                                                   *)
(***************************************************************************)
C29_InputUntouched ==
  (atl.phase = "done" /\ ~atl.raised) => atl.arg_after = atl.arg

(***************************************************************************)
(* C30: get_region_growth_data and every entry of get_top_segments carry   *)
(* _source = 'api' only when the market insights came from a successful    *)
(* remote call; insights served from the bundled sample, or defaults after *)
(* a failed remote call, are labelled 'sample'; neither function raises.   *)
(***************************************************************************)
\* the remote call answered without an error and no fallback was entered
RemoteSucceeded(c) ==
  /\ ~c.raised /\ c.sample = "none"
  /\ c.rpc_log[1].outcome \notin {"no_client", "raises", "empty", "errdict"}

C30_SourceLabel ==
  (lib.phase = "done"
     /\ lib.fn \in {"get_region_growth_data", "get_top_segments"}) =>
    /\ ~lib.raised
    /\ \A i \in 1..Len(lib.ret) :
         /\ lib.ret[i] = "api" => RemoteSucceeded(lib.insights)
         /\ ~RemoteSucceeded(lib.insights) => lib.ret[i] = "sample"

====
